---- MODULE Spec2Model ----
(***************************************************************************)
(* Command resolution and dispatch of the spin binary (src/bin/spin.rs):   *)
(* catalog assembly (plugin_help_entries), the merged clap command tree,   *)
(* the resolution in _main, SpinApp::run and the error report of main.     *)
(*                                                                         *)
(* Strings that the code inspects or builds (names, argv tokens) are       *)
(* sequences of one-character strings, so that starts_with and the "*"     *)
(* suffix of display_text are computed.  Descriptions and messages are     *)
(* only copied by the code and stay atomic.                                *)
(***************************************************************************)
EXTENDS Integers, Sequences, FiniteSets, TLC

VARIABLES
    pc,          \* position in main/_main
    store,       \* what the plugin store answers (try_default, installed_manifests)
    predefined,  \* what predefined_externals() returns
    argv,        \* std::env::args(), program name first
    entries,     \* let plugin_help_entries
    cmd,         \* let mut cmd
    matches,     \* let matches
    call,        \* the handler _main awaits
    result,      \* what _main returns
    stderr,      \* lines written by main
    exit         \* how the process ends

vars == <<pc, store, predefined, argv, entries, cmd, matches, call, result, stderr, exit>>

----------------------------------------------------------------------------
(* Bounds of the model *)

MaxInstalled == 2
MaxPredefined == 2
MaxTrailing == 2
MaxCauses == 3

----------------------------------------------------------------------------
(* Option / Result values *)

None == [tag |-> "None"]
Some(v) == [tag |-> "Some", val |-> v]

SeqsUpTo(S, n) == UNION {[1..k -> S] : k \in 0..n}

----------------------------------------------------------------------------
(* Names *)

NameTemplates == <<"t","e","m","p","l","a","t","e","s">>
NameTemplate == <<"t","e","m","p","l","a","t","e">>
NameNew == <<"n","e","w">>
NameAdd == <<"a","d","d">>
NameUp == <<"u","p">>
NameDeploy == <<"d","e","p","l","o","y">>
NameLogin == <<"l","o","g","i","n">>
NameRegistry == <<"r","e","g","i","s","t","r","y">>
NameOci == <<"o","c","i">>
NameBuild == <<"b","u","i","l","d">>
NamePlugins == <<"p","l","u","g","i","n","s">>
NamePlugin == <<"p","l","u","g","i","n">>
NameTrigger == <<"t","r","i","g","g","e","r">>
NameWatch == <<"w","a","t","c","h">>
NameDoctor == <<"d","o","c","t","o","r">>
NameHelp == <<"h","e","l","p">>

\* the prefix tested by hide_plugin_in_help
ReservedPrefix == <<"t","r","i","g","g","e","r","-">>

\* the footer set by after_help
PluginFooter == "* implemented via plugin"

\* names used as inputs
NameCloud == <<"c","l","o","u","d">>
NameCloudStar == <<"c","l","o","u","d","*">>
NameTriggerX == <<"t","r","i","g","g","e","r","-","x">>
NameZz == <<"z","z">>
Prog == <<"s","p","i","n">>
TokWeirdFlag == <<"-","-","w">>
TokValue == <<"v">>

starts_with(s, p) == Len(s) >= Len(p) /\ SubSeq(s, 1, Len(p)) = p

----------------------------------------------------------------------------
(* Plugin catalog *)

hide_plugin_in_help(plugin) == starts_with(plugin.name, ReservedPrefix)

unwrap_or_default(o) == IF o.tag = "Some" THEN o.val ELSE ""

from_plugin(plugin) ==
    IF hide_plugin_in_help(plugin)
    THEN None
    ELSE Some([name |-> plugin.name, about |-> unwrap_or_default(plugin.description)])

RECURSIVE filter_map_from_plugin(_)
filter_map_from_plugin(manifests) ==
    IF manifests = <<>> THEN <<>>
    ELSE LET e == from_plugin(Head(manifests))
             rest == filter_map_from_plugin(Tail(manifests))
         IN IF e.tag = "Some" THEN <<e.val>> \o rest ELSE rest

installed_plugin_help_entries(st) ==
    IF st.tag = "ManagerErr" THEN <<>>
    ELSE IF st.tag = "ManifestsErr" THEN <<>>
    ELSE filter_map_from_plugin(st.manifests)

\* a comparison against the displayed name instead of the name
any_display_text_eq(es, name) == \E i \in 1..Len(es) : es[i].name \o <<"*">> = name

any_name_eq(es, name) == \E i \in 1..Len(es) : es[i].name = name

RECURSIVE push_predefined(_, _)
push_predefined(es, pre) ==
    IF pre = <<>> THEN es
    ELSE LET p == Head(pre)
         IN IF ~any_name_eq(es, p.name)
            THEN push_predefined(Append(es, [name |-> p.name, about |-> p.about]), Tail(pre))
            ELSE push_predefined(es, Tail(pre))

\* the predefined entries appended without the check for a name already present
plugin_help_entries_unchecked(st, pre) == installed_plugin_help_entries(st) \o pre

plugin_help_entries(st, pre) ==
    push_predefined(installed_plugin_help_entries(st), pre)

----------------------------------------------------------------------------
(* Command tree *)

display_text(e) == e.name \o <<"*">>

StaticNode(n, al) ==
    [name |-> n, aliases |-> al, about |-> None, arg |-> None,
     allow_hyphen_values |-> FALSE, disable_help_flag |-> FALSE]

\* the subcommands the derive of SpinApp declares, in declaration order
\* (External is the catch-all, not a node)
StaticSubcommands ==
    << StaticNode(NameTemplates, {NameTemplate}),
       StaticNode(NameNew, {}),
       StaticNode(NameAdd, {}),
       StaticNode(NameUp, {}),
       StaticNode(NameDeploy, {}),
       StaticNode(NameLogin, {}),
       StaticNode(NameRegistry, {NameOci}),
       StaticNode(NameBuild, {}),
       StaticNode(NamePlugins, {NamePlugin}),
       StaticNode(NameTrigger, {}),
       StaticNode(NameWatch, {}),
       StaticNode(NameDoctor, {}) >>

BuiltinNames == {StaticSubcommands[i].name : i \in 1..Len(StaticSubcommands)}

BuiltinAliases == UNION {StaticSubcommands[i].aliases : i \in 1..Len(StaticSubcommands)}

SpinApp_command == [subcommands |-> StaticSubcommands, after_help |-> None]

plugin_subcommand(plugin) ==
    [name |-> display_text(plugin), aliases |-> {}, about |-> Some(plugin.about),
     arg |-> Some("command"), allow_hyphen_values |-> TRUE, disable_help_flag |-> TRUE]

RECURSIVE add_plugin_subcommands(_, _)
add_plugin_subcommands(c, es) ==
    IF es = <<>> THEN c
    ELSE add_plugin_subcommands(
             [c EXCEPT !.subcommands = Append(@, plugin_subcommand(Head(es)))],
             Tail(es))

\* the footer set whatever the catalog
with_after_help_always(c, es) == [c EXCEPT !.after_help = Some(PluginFooter)]

with_after_help(c, es) ==
    IF es # <<>> THEN [c EXCEPT !.after_help = Some(PluginFooter)] ELSE c

build_command(es) == with_after_help(add_plugin_subcommands(SpinApp_command, es), es)

----------------------------------------------------------------------------
(* Parsing and resolution *)

\* index of the first subcommand node whose name or alias is tok, 0 if none
find_subcommand(c, tok) ==
    LET S == {i \in 1..Len(c.subcommands) :
                 c.subcommands[i].name = tok \/ tok \in c.subcommands[i].aliases}
    IN IF S = {} THEN 0 ELSE CHOOSE i \in S : \A j \in S : i <= j

\* the subcommand part of the matches of a successful parse: a declared node is
\* reported under its own name, with the trailing values under the id of its
\* argument; an unknown name is an external subcommand, its values under ""
get_matches(c, av) ==
    LET tok == av[2]
        rest == SubSeq(av, 3, Len(av))
        i == find_subcommand(c, tok)
    IN IF i = 0
       THEN [name |-> tok, id |-> Some(""), values |-> rest]
       ELSE [name |-> c.subcommands[i].name, id |-> c.subcommands[i].arg, values |-> rest]

\* the subcommand name skipped as well
args_skip_2(av) == SubSeq(av, 3, Len(av))

\* std::env::args().skip(1).collect()
args_skip_1(av) == SubSeq(av, 2, Len(av))

\* the derived FromArgMatches of SpinApp: a declared variant by name, else the
\* external_subcommand variant, built from the name and the values under ""
from_arg_matches(m) ==
    IF m.name \in BuiltinNames
    THEN [external |-> FALSE, name |-> m.name, cmd |-> m.values]
    ELSE [external |-> TRUE, name |-> <<>>,
          cmd |-> <<m.name>> \o (IF m.id = Some("") THEN m.values ELSE <<>>)]

\* every variant handed to the forwarder
run_always_forwards(v, app) ==
    [fn |-> "execute_external_subcommand", handler |-> <<>>, command |-> v.cmd,
     app |-> Some(app)]

\* SpinApp::run
run(v, app) ==
    IF v.external
    THEN [fn |-> "execute_external_subcommand", handler |-> <<>>, command |-> v.cmd,
          app |-> Some(app)]
    ELSE [fn |-> "cmd.run", handler |-> v.name, command |-> v.cmd,
          app |-> IF v.name \in {NameDeploy, NameLogin} THEN Some(SpinApp_command) ELSE None]

\* lines 65-72 of _main
resolve(es, m, av, c) ==
    IF any_name_eq(es, m.name)
    THEN [fn |-> "execute_external_subcommand", handler |-> <<>>,
          command |-> args_skip_1(av), app |-> Some(c)]
    ELSE run(from_arg_matches(m), c)

----------------------------------------------------------------------------
(* Error report *)

Ok == [tag |-> "Ok"]
Err(chain) == [tag |-> "Err", chain |-> chain]

\* an anyhow::Error with n underlying causes: the error first, then its causes
ErrorChain(n) == [i \in 1..(n + 1) |-> [message |-> i - 1]]

ErrorLine(e) == [fmt |-> "error", text |-> e]
CausedByLine == [fmt |-> "Caused by:"]
NumberedLine(i, e) == [fmt |-> "{i:>4}: {}", i |-> i, text |-> e]
PlainLine(e) == [fmt |-> "      {}", text |-> e]

\* numbering as soon as there is one cause
is_multiple_from_one(err) == Len(err) >= 2

is_multiple(err) == Len(err) >= 3

print_error_chain(err) ==
    IF Len(err) >= 2
    THEN <<CausedByLine>> \o
         [k \in 1..(Len(err) - 1) |->
             IF is_multiple(err) THEN NumberedLine(k - 1, err[k + 1])
             ELSE PlainLine(err[k + 1])]
    ELSE <<>>

----------------------------------------------------------------------------
(* Inputs *)

ManifestPool ==
    { [name |-> NameCloud, description |-> None],
      [name |-> NameCloud, description |-> Some("local")],
      [name |-> NameUp, description |-> Some("local")],
      [name |-> NameTriggerX, description |-> Some("local")] }

PredefinedPool ==
    { [name |-> NameCloud, about |-> "pre1"],
      [name |-> NameCloud, about |-> "pre2"],
      [name |-> NameUp, about |-> "pre1"],
      [name |-> NameTriggerX, about |-> "pre1"] }

StoreResults(pool, n) ==
    { [tag |-> "ManagerErr"], [tag |-> "ManifestsErr"] }
    \cup { [tag |-> "Ok", manifests |-> m] : m \in SeqsUpTo(pool, n) }

InitRest ==
    /\ pc = "start"
    /\ entries = <<>>
    /\ cmd = None
    /\ matches = None
    /\ call = None
    /\ result = None
    /\ stderr = <<>>
    /\ exit = None

\* catalog assembly alone, over every store answer and predefined table
InitCatalog ==
    /\ store \in StoreResults(ManifestPool, MaxInstalled)
    /\ predefined \in SeqsUpTo(PredefinedPool, MaxPredefined)
    /\ argv = <<Prog>>
    /\ InitRest

MainManifestPool ==
    { [name |-> NameCloud, description |-> Some("local")],
      [name |-> NameUp, description |-> None] }

MainPredefinedPool ==
    { [name |-> NameCloud, about |-> "pre1"],
      [name |-> NameUp, about |-> "pre1"] }

SubcommandTokens ==
    {NameCloud, NameUp, NameDeploy, NameTemplate, NameCloudStar, NameZz, NameHelp}

TrailingTokens == {TokWeirdFlag, TokValue}

Argvs ==
    { <<Prog>> } \cup
    { <<Prog, t>> \o r : t \in SubcommandTokens, r \in SeqsUpTo(TrailingTokens, MaxTrailing) }

\* a whole run of the process
Init ==
    /\ store \in StoreResults(MainManifestPool, MaxInstalled)
    /\ predefined \in SeqsUpTo(MainPredefinedPool, MaxPredefined)
    /\ argv \in Argvs
    /\ InitRest

----------------------------------------------------------------------------
(* Steps of main and _main *)

\* line 43
AssembleCatalog ==
    /\ pc = "start"
    /\ entries' = plugin_help_entries(store, predefined)
    /\ pc' = "assembled"
    /\ UNCHANGED <<store, predefined, argv, cmd, matches, call, result, stderr, exit>>

\* lines 45-61
BuildCommand ==
    /\ pc = "assembled"
    /\ cmd' = build_command(entries)
    /\ pc' = "built"
    /\ UNCHANGED <<store, predefined, argv, entries, matches, call, result, stderr, exit>>

ClapExit(kind) ==
    /\ exit' = [by |-> "clap", kind |-> kind]
    /\ pc' = "done"
    /\ UNCHANGED <<store, predefined, argv, entries, cmd, matches, call, result, stderr>>

\* line 63, no subcommand given: the parser prints the help and ends the process
ParseMissingSubcommand ==
    /\ pc = "built"
    /\ Len(argv) = 1
    /\ ClapExit("help on missing subcommand")

\* line 63, the parser's own help subcommand
ParseHelpSubcommand ==
    /\ pc = "built"
    /\ Len(argv) >= 2
    /\ find_subcommand(cmd, argv[2]) = 0
    /\ argv[2] = NameHelp
    /\ ClapExit("help")

\* line 63, a declared subcommand whose own parser refuses the trailing tokens
ParseUsageError ==
    /\ pc = "built"
    /\ Len(argv) >= 2
    /\ find_subcommand(cmd, argv[2]) # 0
    /\ cmd.subcommands[find_subcommand(cmd, argv[2])].arg = None
    /\ ClapExit("usage error")

\* line 63, the parse succeeds
ParseOk ==
    /\ pc = "built"
    /\ Len(argv) >= 2
    /\ ~(find_subcommand(cmd, argv[2]) = 0 /\ argv[2] = NameHelp)
    /\ matches' = Some(get_matches(cmd, argv))
    /\ pc' = "parsed"
    /\ UNCHANGED <<store, predefined, argv, entries, cmd, call, result, stderr, exit>>

\* lines 65-72, up to the call of the handler
Resolve ==
    /\ pc = "parsed"
    /\ call' = Some(resolve(entries, matches.val, argv, cmd))
    /\ pc' = "handler"
    /\ UNCHANGED <<store, predefined, argv, entries, cmd, matches, result, stderr, exit>>

\* the awaited handler returns Ok(())
HandlerOk ==
    /\ pc = "handler"
    /\ result' = Ok
    /\ pc' = "returned"
    /\ UNCHANGED <<store, predefined, argv, entries, cmd, matches, call, stderr, exit>>

\* the awaited handler returns an error with n underlying causes
HandlerErr ==
    /\ pc = "handler"
    /\ \E n \in 0..MaxCauses : result' = Err(ErrorChain(n))
    /\ pc' = "returned"
    /\ UNCHANGED <<store, predefined, argv, entries, cmd, matches, call, stderr, exit>>

\* lines 26-30, _main returned Ok: main returns
MainOk ==
    /\ pc = "returned"
    /\ result.tag = "Ok"
    /\ exit' = [by |-> "main", code |-> 0]
    /\ pc' = "done"
    /\ UNCHANGED <<store, predefined, argv, entries, cmd, matches, call, result, stderr>>

\* lines 26-30, _main returned Err(err)
MainErr ==
    /\ pc = "returned"
    /\ result.tag = "Err"
    /\ stderr' = <<ErrorLine(result.chain[1])>> \o print_error_chain(result.chain)
    /\ exit' = [by |-> "main", code |-> 1]
    /\ pc' = "done"
    /\ UNCHANGED <<store, predefined, argv, entries, cmd, matches, call, result>>

Next ==
    \/ AssembleCatalog
    \/ BuildCommand
    \/ ParseMissingSubcommand
    \/ ParseHelpSubcommand
    \/ ParseUsageError
    \/ ParseOk
    \/ Resolve
    \/ HandlerOk
    \/ HandlerErr
    \/ MainOk
    \/ MainErr

Spec == Init /\ [][Next]_vars

NextCatalog == AssembleCatalog

SpecCatalog == InitCatalog /\ [][NextCatalog]_vars

----------------------------------------------------------------------------
(* Properties of catalog assembly, checked under SpecCatalog *)

Manifests == IF store.tag = "Ok" THEN store.manifests ELSE <<>>

EntriesNamed(name) == {k \in 1..Len(entries) : entries[k].name = name}

\* the installed manifests that are not hidden
Visible == {i \in 1..Len(Manifests) : ~starts_with(Manifests[i].name, ReservedPrefix)}

\* the predefined entries whose name no visible manifest and no earlier
\* predefined entry carries
Kept ==
    {j \in 1..Len(predefined) :
        /\ \A i \in Visible : Manifests[i].name # predefined[j].name
        /\ \A k \in 1..(j - 1) : predefined[k].name # predefined[j].name}

Rank(S, i) == Cardinality({x \in S : x <= i})

\* C4 as stated: a name both installed and predefined has exactly one catalog
\* entry, and that entry carries the installed manifest's description (the
\* empty string if it declares none).
C4_OneEntryWithLocalDescription ==
    pc = "assembled" =>
        \A i \in 1..Len(Manifests) : \A j \in 1..Len(predefined) :
            Manifests[i].name = predefined[j].name =>
                /\ Cardinality(EntriesNamed(Manifests[i].name)) = 1
                /\ \A k \in EntriesNamed(Manifests[i].name) :
                       entries[k].about =
                           (IF Manifests[i].description.tag = "Some"
                            THEN Manifests[i].description.val ELSE "")

\* C5 as stated: the catalog holds no entry whose name begins with "trigger-",
\* whether the name comes from the store or from the predefined table.
C5_NoReservedName ==
    pc = "assembled" =>
        \A k \in 1..Len(entries) : ~starts_with(entries[k].name, ReservedPrefix)

\* C8 as stated: no two entries of the catalog have the same name, for any
\* list of installed manifests and any predefined table.
C8_UniqueNames ==
    pc = "assembled" =>
        \A k \in 1..Len(entries) : \A l \in 1..Len(entries) :
            entries[k].name = entries[l].name => k = l

\* C10: the catalog is the visible installed entries in store order, then the
\* predefined entries whose name is not yet present, in declaration order; a
\* store that cannot be opened or listed contributes nothing.
C10_InstalledThenPredefined ==
    pc = "assembled" =>
        /\ store.tag # "Ok" =>
               /\ Len(entries) = Cardinality(Kept)
               /\ \A k \in 1..Len(entries) : \E j \in 1..Len(predefined) :
                      entries[k] = predefined[j]
        /\ Len(entries) = Cardinality(Visible) + Cardinality(Kept)
        /\ \A i \in Visible :
               entries[Rank(Visible, i)] =
                   [name |-> Manifests[i].name,
                    about |-> IF Manifests[i].description.tag = "Some"
                              THEN Manifests[i].description.val ELSE ""]
        /\ \A j \in Kept :
               entries[Cardinality(Visible) + Rank(Kept, j)] =
                   [name |-> predefined[j].name, about |-> predefined[j].about]

C10_Witness ==
    /\ pc = "assembled"
    /\ store.tag = "Ok"
    /\ Len(store.manifests) = 2
    /\ Cardinality(Visible) = 1
    /\ Len(predefined) = 2
    /\ Cardinality(Kept) = 1
    /\ Len(entries) = 2
    /\ entries[1].about = "local"
    /\ entries[2].about = "pre1"

----------------------------------------------------------------------------
(* Properties of a run, checked under Spec *)

InCatalog(name) == \E i \in 1..Len(entries) : entries[i].name = name

Forwarder == "execute_external_subcommand"

\* C1 as stated: on a catalog match the forwarder receives the tokens that
\* follow the subcommand name, program name and subcommand name both stripped.
C1_SubcommandNameStripped ==
    (call.tag = "Some" /\ InCatalog(matches.val.name)) =>
        call.val.command = SubSeq(argv, 3, Len(argv))

\* C1 amended: on a catalog match the forwarder receives the process arguments
\* with the program name alone stripped: the subcommand token first, then the
\* trailing tokens, in order and unmodified.
C1_ProgramNameStripped ==
    (call.tag = "Some" /\ InCatalog(matches.val.name)) =>
        /\ Len(call.val.command) = Len(argv) - 1
        /\ \A i \in 1..(Len(argv) - 1) : call.val.command[i] = argv[i + 1]

C1_Witness ==
    /\ call.tag = "Some"
    /\ InCatalog(matches.val.name)
    /\ argv = <<Prog, NameCloud, TokWeirdFlag, TokValue>>
    /\ call.val.command = <<NameCloud, TokWeirdFlag, TokValue>>

\* C2: a parsed subcommand name equal to a catalog entry's name is forwarded
\* externally and no in-process handler runs, also when the name is a declared
\* built-in and although the tree holds a synthetic node for the entry.
C2_CatalogNameForwards ==
    (call.tag = "Some" /\ InCatalog(matches.val.name)) =>
        /\ call.val.fn = Forwarder
        /\ call.val.handler = <<>>
        /\ call.val.app = Some(cmd)

C2_Witness ==
    /\ call.tag = "Some"
    /\ matches.val.name = NameUp
    /\ InCatalog(NameUp)
    /\ \E i \in 1..Len(cmd.subcommands) : cmd.subcommands[i].name = NameUp \o <<"*">>
    /\ call.val.fn = Forwarder

\* C3 as stated: a declared built-in name runs the built-in's handler and never
\* the forwarder, whatever the catalog holds.
C3_BuiltinAlwaysRuns ==
    (call.tag = "Some" /\ matches.val.name \in BuiltinNames) =>
        /\ call.val.fn = "cmd.run"
        /\ call.val.handler = matches.val.name

\* C3 amended: a declared built-in name that is not also the name of a catalog
\* entry runs the built-in's handler and never the forwarder.
C3_BuiltinRunsUnlessInCatalog ==
    (call.tag = "Some" /\ matches.val.name \in BuiltinNames
        /\ ~InCatalog(matches.val.name)) =>
        /\ call.val.fn = "cmd.run"
        /\ call.val.handler = matches.val.name

C3_Witness ==
    /\ call.tag = "Some"
    /\ matches.val.name = NameUp
    /\ InCatalog(NameCloud)
    /\ ~InCatalog(NameUp)
    /\ call.val.fn = "cmd.run"
    /\ call.val.handler = NameUp

\* C6: the tree carries the plugin footer exactly when the catalog is not
\* empty, and after the declared subcommands it holds one synthetic subcommand
\* per catalog entry, in order, named the entry's name followed by "*".
C6_FooterIffCatalog ==
    pc \notin {"start", "assembled"} =>
        /\ (cmd.after_help = Some(PluginFooter)) <=> (Len(entries) > 0)
        /\ (Len(entries) = 0) => (cmd.after_help = None)
        /\ Len(cmd.subcommands) = Len(StaticSubcommands) + Len(entries)
        /\ SubSeq(cmd.subcommands, 1, Len(StaticSubcommands)) = StaticSubcommands
        /\ \A i \in 1..Len(entries) :
               /\ cmd.subcommands[Len(StaticSubcommands) + i].name
                      = entries[i].name \o <<"*">>
               /\ cmd.subcommands[Len(StaticSubcommands) + i].arg = Some("command")

C6_Witness ==
    /\ pc = "built"
    /\ Len(entries) = 2
    /\ cmd.after_help = Some(PluginFooter)
    /\ Len(cmd.subcommands) = Len(StaticSubcommands) + 2

\* C7: when the handler returns an error the process prints the primary
\* message and exits with code 1; no cause prints nothing more, one cause
\* prints the header and one unnumbered line, n >= 2 causes print the header
\* and n lines numbered 0..n-1 in chain order.
C7_ErrorChainPrinted ==
    (pc = "done" /\ result.tag = "Err") =>
        LET n == Len(result.chain) - 1
        IN /\ exit = [by |-> "main", code |-> 1]
           /\ stderr[1] = [fmt |-> "error", text |-> result.chain[1]]
           /\ n = 0 => Len(stderr) = 1
           /\ n = 1 => /\ Len(stderr) = 3
                       /\ stderr[2] = [fmt |-> "Caused by:"]
                       /\ stderr[3] = [fmt |-> "      {}", text |-> result.chain[2]]
           /\ n >= 2 => /\ Len(stderr) = n + 2
                        /\ stderr[2] = [fmt |-> "Caused by:"]
                        /\ \A i \in 0..(n - 1) :
                               stderr[i + 3] = [fmt |-> "{i:>4}: {}", i |-> i,
                                                text |-> result.chain[i + 2]]

C7_Witness ==
    /\ pc = "done"
    /\ result.tag = "Err"
    /\ Len(result.chain) = 3
    /\ Len(stderr) = 4

\* C9 as stated: a subcommand name that is neither a catalog entry's name nor
\* a declared built-in or alias selects the External variant, and the forwarder
\* is called with the name followed by its trailing tokens and with the merged
\* tree.
C9_UnknownNameForwardedWhole ==
    (call.tag = "Some" /\ ~InCatalog(matches.val.name)
        /\ matches.val.name \notin (BuiltinNames \cup BuiltinAliases)) =>
        /\ call.val.fn = Forwarder
        /\ call.val.command = <<matches.val.name>> \o SubSeq(argv, 3, Len(argv))
        /\ call.val.app = Some(cmd)

====
